---- MODULE Spec2Model ----
(***************************************************************************)
(* A state-machine model of the NewsPortal views: the article views of     *)
(* news/views.py (read-through page cache, create / edit / delete,         *)
(* category subscription, post-limit check) and the account views of       *)
(* news/views_auth.py (register, activate, login, profile).                *)
(*                                                                         *)
(* One action models one request handler from its first line to the        *)
(* response it returns.  The variable last records the request that was    *)
(* handled last and its response; sent and enqueued hold the emails sent   *)
(* and the Celery tasks enqueued while that request was handled.           *)
(***************************************************************************)
EXTENDS Naturals, Integers, Sequences, FiniteSets, TLC

\* ---- bounds of the model ----
MaxArticles == 1
MaxUsers == 3
MaxTicks == 2
MaxPosts == 4
MaxPending == 1
MaxBeatMinutes == 10080

\* ---- program constants ----
CACHE_TIMEOUT == 300
DAY_SECONDS == 86400
BASIC_POST_LIMIT == 3
PREMIUM_POST_LIMIT == 5

\* ---- values ----
Anonymous == 0
Missing == "<missing>"
UserIds == 1..MaxUsers
ArticleIds == 1..MaxArticles
CategoryIds == {1, 2}
GroupNames == {"basic", "premium", "authors"}
NoPage == [title |-> Missing, content |-> Missing, user_is_author |-> FALSE]

VARIABLES
    users,        \* ids of the rows of the User table
    is_active,    \* User.is_active, per user
    is_superuser, \* User.is_superuser, per user
    groups,       \* group name -> set of member users
    session,      \* users that hold a logged-in session
    registered,   \* users created by RegisterView.post
    activated,    \* users for which ActivateAccountView.get has run
    articles,     \* article id -> row of the Article table
    next_id,      \* next value of the Article autoincrement key
    edited,       \* articles that ArticleEditView.post has changed
    deleted,      \* articles that ArticleDeleteView.post has deleted
    pending,      \* detail requests between their cache lookup and their cache store
    categories,   \* ids of the rows of the Category table
    subscribers,  \* category id -> set of subscribed users
    cache,        \* cache key -> [response, expires]
    now,          \* the wall clock, in seconds
    ticks,        \* number of clock advances so far
    USE_CELERY,   \* settings.USE_CELERY
    last,         \* the request handled last, and its response
    sent,         \* emails sent while handling the last request
    enqueued      \* Celery tasks enqueued while handling the last request

vars == <<users, is_active, is_superuser, groups, session, registered, activated, articles,
          next_id, edited, deleted, pending, categories, subscribers, cache, now, ticks, USE_CELERY,
          last, sent, enqueued>>

accountVars == <<users, is_active, is_superuser, groups, session, registered, activated>>
articleVars == <<articles, next_id, edited, deleted, pending>>
settingVars == <<categories, USE_CELERY>>
clockVars == <<now, ticks>>

\* ---- helpers ----

\* Python truthiness of a request parameter: None and '' are falsy.
\* Mutant: only None is falsy.
Truthy_NotNone(s) == s # Missing

Truthy(s) == s # Missing /\ s # ""

get_article_cache_key(article_id, publication_date) ==
    "article_" \o ToString(article_id) \o "_" \o ToString(publication_date)

\* cache.get: the stored value, or NoPage (None) when absent or expired.
CacheLive(c, key, t) == key \in DOMAIN c /\ c[key].expires >= t

cache_get(c, key, t) == IF CacheLive(c, key, t) THEN c[key].response ELSE NoPage

cache_set(c, key, response, timeout, t) ==
    [k \in DOMAIN c \cup {key} |->
        IF k = key THEN [response |-> response, expires |-> t + timeout] ELSE c[k]]

cache_delete(c, key) == [k \in DOMAIN c \ {key} |-> c[k]]

\* Mutant: the cache entry of the article is left in place.
clear_article_cache_Kept(c, article) == c

clear_article_cache(c, article) ==
    cache_delete(c, get_article_cache_key(article.id, article.publication_date))

get_article_from_cache(c, article_id, publication_date, t) ==
    cache_get(c, get_article_cache_key(article_id, publication_date), t)

\* Mutant: the page is stored under a key that leaves out the date.
set_article_to_cache_NoDate(c, article, response, t) ==
    cache_set(c, get_article_cache_key(article.id, 0), response, CACHE_TIMEOUT, t)

set_article_to_cache(c, article, response, t) ==
    cache_set(c, get_article_cache_key(article.id, article.publication_date),
              response, CACHE_TIMEOUT, t)

\* render(request, 'news/article_detail.html', {...})
RenderDetail(article, r) ==
    [title |-> article.title, content |-> article.content,
     user_is_author |-> (r = article.author)]

\* The rows of a query set, in primary-key order.
RECURSIVE QuerySet(_)
QuerySet(S) ==
    IF S = {} THEN <<>>
    ELSE LET m == CHOOSE x \in S : \A y \in S : x <= y
         IN <<m>> \o QuerySet(S \ {m})

Email(kind, u, about) == [kind |-> kind, to |-> <<u>>, about |-> about]

\* Mutant: one email per subscriber, each addressed to all the subscribers.
send_article_notification_ToAll(article, use_celery) ==
    IF use_celery
    THEN <<<<>>, <<[task |-> "send_new_article_notification", arg |-> article.id]>>>>
    ELSE LET subs == QuerySet(subscribers[article.category])
         IN <<[i \in 1..Len(subs) |-> [kind |-> "notification", to |-> subs, about |-> article.id]],
              <<>>>>

\* send_article_notification: the pair <<emails sent, tasks enqueued>>.
send_article_notification(article, use_celery) ==
    IF use_celery
    THEN <<<<>>, <<[task |-> "send_new_article_notification", arg |-> article.id]>>>>
    ELSE LET subs == QuerySet(subscribers[article.category])
         IN <<[i \in 1..Len(subs) |-> Email("notification", subs[i], article.id)], <<>>>>

\* Mutant: the test passes for every logged-in user.
test_func_Any(r) == TRUE

test_func(r) == is_superuser[r] \/ r \in groups["authors"]

\* LoginRequiredMixin, then UserPassesTestMixin: 0 when the request passes,
\* else the status of handle_no_permission.
AccessStatus(r) ==
    IF r \notin session THEN 302
    ELSE IF ~test_func(r) THEN 403
    ELSE 0

Request(op, r, pk, cat, atype, title, content) ==
    [op |-> op, user |-> r, pk |-> pk, cat |-> cat, atype |-> atype,
     title |-> title, content |-> content]

Response(req, status, page, rendered) ==
    [op |-> req.op, user |-> req.user, pk |-> req.pk, cat |-> req.cat,
     atype |-> req.atype, title |-> req.title, content |-> req.content,
     status |-> status, page |-> page, rendered |-> rendered, location |-> Missing]

\* redirect(location)
Redirect(req, location) == [Response(req, 302, NoPage, FALSE) EXCEPT !.location = location]

\* A request that changes nothing and answers with a status.
Answer(req, status) ==
    /\ last' = Response(req, status, NoPage, FALSE)
    /\ sent' = <<>>
    /\ enqueued' = <<>>
    /\ UNCHANGED <<accountVars, articleVars, settingVars, subscribers, cache, clockVars>>

\* ---- the clock ----
Tick(d) ==
    /\ ticks < MaxTicks
    /\ now' = now + d
    /\ ticks' = ticks + 1
    /\ last' = Response(Request("tick", Anonymous, 0, 0, Missing, Missing, Missing), 0, NoPage, FALSE)
    /\ sent' = <<>>
    /\ enqueued' = <<>>
    /\ UNCHANGED <<accountVars, articleVars, settingVars, subscribers, cache>>

\* ---- ArticleDetailView.get ----
ArticleDetailGet(r, id) ==
    LET req == Request("detail", r, id, 0, Missing, Missing, Missing) IN
    IF id \notin DOMAIN articles THEN Answer(req, 404)
    ELSE
      LET article == articles[id]
          cached_response == get_article_from_cache(cache, article.id, article.publication_date, now)
          response == RenderDetail(article, r)
      IN IF cached_response # NoPage
         THEN /\ last' = Response(req, 200, cached_response, FALSE)
              /\ sent' = <<>>
              /\ enqueued' = <<>>
              /\ UNCHANGED <<accountVars, articleVars, settingVars, subscribers, cache, clockVars>>
         ELSE /\ cache' = set_article_to_cache(cache, article, response, now)
              /\ last' = Response(req, 200, response, TRUE)
              /\ sent' = <<>>
              /\ enqueued' = <<>>
              /\ UNCHANGED <<accountVars, articleVars, settingVars, subscribers, clockVars>>

\* ---- CELERY_BEAT_SCHEDULE ----
\* The fields of a UTC time given in seconds since 1970-01-01 00:00, a
\* Thursday; day_of_week counts from Sunday = 0 as crontab does.
beat_minute(t) == (t \div 60) % 60

beat_hour(t) == (t \div 3600) % 24

beat_day_of_week(t) == ((t \div DAY_SECONDS) + 4) % 7

\* The values a crontab field written '*/n' matches, out of 0..size-1; '*'
\* is '*/1'.
crontab_every(n, size) == {v \in 0..(size - 1) : v % n = 0}

\* crontab(minute=..., hour=..., day_of_week=...); a field left out is '*'.
crontab(minute, hour, day_of_week) ==
    [minute |-> minute, hour |-> hour, day_of_week |-> day_of_week]

CELERY_BEAT_SCHEDULE ==
    {[name |-> "send-weekly-digest-every-monday-8am",
      task |-> "news.tasks.send_weekly_digest",
      schedule |-> crontab(crontab_every(1, 60), crontab_every(1, 24), crontab_every(1, 7))]}

\* crontab.is_due at a whole minute
is_due(schedule, t) ==
    /\ beat_minute(t) \in schedule.minute
    /\ beat_hour(t) \in schedule.hour
    /\ beat_day_of_week(t) \in schedule.day_of_week

\* The tasks of the due entries, in any order.
DueTasks(t) ==
    LET due == {e \in CELERY_BEAT_SCHEDULE : is_due(e.schedule, t)}
    IN {order \in [1..Cardinality(due) -> {[task |-> e.task, arg |-> 0] : e \in due}] :
            \A e \in due : \E i \in DOMAIN order : order[i].task = e.task}

\* The beat service at the start of the next minute: every entry whose
\* schedule is due has its task sent to the queue.
BeatTick ==
    /\ now < MaxBeatMinutes * 60
    /\ now' = now + 60
    /\ \E order \in DueTasks(now + 60) : enqueued' = order
    /\ last' = Response(Request("beat", Anonymous, 0, 0, Missing, Missing, Missing), 0, NoPage, FALSE)
    /\ sent' = <<>>
    /\ UNCHANGED <<accountVars, articleVars, settingVars, subscribers, cache, ticks>>

\* ---- ArticleDetailView.get as two steps of a worker ----
\* The view runs without a lock or a transaction: between the cache lookup
\* and the cache store of one request, other requests run to completion.
\* DetailBegin is the view up to and including the lookup; a miss leaves the
\* request in flight, holding the article object it loaded.
DetailBegin(r, id) ==
    LET req == Request("detail", r, id, 0, Missing, Missing, Missing) IN
    IF id \notin DOMAIN articles THEN Answer(req, 404)
    ELSE
      LET article == articles[id]
          cached_response == get_article_from_cache(cache, article.id, article.publication_date, now)
      IN IF cached_response # NoPage
         THEN /\ last' = Response(req, 200, cached_response, FALSE)
              /\ sent' = <<>>
              /\ enqueued' = <<>>
              /\ UNCHANGED <<accountVars, articleVars, settingVars, subscribers, cache, clockVars>>
         ELSE /\ Cardinality(pending) < MaxPending
              /\ pending' = pending \cup {[user |-> r, article |-> article]}
              /\ last' = Response(Request("detail_begin", r, id, 0, Missing, Missing, Missing),
                                  0, NoPage, FALSE)
              /\ sent' = <<>>
              /\ enqueued' = <<>>
              /\ UNCHANGED <<accountVars, articles, next_id, edited, deleted,
                             settingVars, subscribers, cache, clockVars>>

\* DetailEnd is the rest of the view: render the loaded article object and
\* store the response under the key of that object.
DetailEnd(p) ==
    LET req == Request("detail_end", p.user, p.article.id, 0, Missing, Missing, Missing)
        response == RenderDetail(p.article, p.user)
    IN /\ p \in pending
       /\ pending' = pending \ {p}
       /\ cache' = set_article_to_cache(cache, p.article, response, now)
       /\ last' = Response(req, 200, response, TRUE)
       /\ sent' = <<>>
       /\ enqueued' = <<>>
       /\ UNCHANGED <<accountVars, articles, next_id, edited, deleted,
                      settingVars, subscribers, clockVars>>

\* ---- BaseArticleView.get_article ----
\* "bad" for the HttpResponseBadRequest object it returns on an invalid
\* article_type, "404" when get_object_or_404 raises, else "ok".
get_article_kind(pk, article_type) ==
    IF article_type \notin {"0", "1"} THEN "bad"
    ELSE IF pk \in DOMAIN articles /\ articles[pk].article_type = (article_type = "1")
         THEN "ok"
         ELSE "404"

\* ---- ArticleCreateView.post ----
ArticleCreatePost(r, title, content, category_id, article_type) ==
    LET req == Request("create", r, 0, category_id, article_type, title, content) IN
    IF AccessStatus(r) # 0 THEN Answer(req, AccessStatus(r))
    ELSE IF ~Truthy(title) \/ ~Truthy(content) \/ category_id = 0
    THEN /\ last' = Response(req, 200, NoPage, TRUE)
         /\ sent' = <<>>
         /\ enqueued' = <<>>
         /\ UNCHANGED <<accountVars, articleVars, settingVars, subscribers, cache, clockVars>>
    ELSE IF category_id \notin categories THEN Answer(req, 404)
    ELSE
      LET article == [id |-> next_id, title |-> title, author |-> r,
                      content |-> content, publication_date |-> now,
                      article_type |-> (article_type = "news"),
                      category |-> category_id]
          \* self.send_article_notification(article): use_celery keeps its
          \* default, True; settings.USE_CELERY is not read.
          notification == send_article_notification(article, TRUE)
      IN /\ articles' = [i \in DOMAIN articles \cup {next_id} |->
                            IF i = next_id THEN article ELSE articles[i]]
         /\ next_id' = next_id + 1
         /\ UNCHANGED <<edited, deleted, pending>>
         /\ sent' = notification[1]
         /\ enqueued' = notification[2]
         /\ last' = Response([req EXCEPT !.pk = next_id], 302, NoPage, FALSE)
         /\ UNCHANGED <<accountVars, settingVars, subscribers, cache, clockVars>>

\* ---- ArticleEditView.post ----
ArticleEditPost(r, pk, article_type, title, content) ==
    LET req == Request("edit", r, pk, 0, article_type, title, content)
        kind == get_article_kind(pk, article_type)
    IN
    IF AccessStatus(r) # 0 THEN Answer(req, AccessStatus(r))
    ELSE IF kind = "404" THEN Answer(req, 404)
    ELSE IF ~Truthy(title) \/ ~Truthy(content)
    THEN /\ last' = Response(req, 200, NoPage, TRUE)
         /\ sent' = <<>>
         /\ enqueued' = <<>>
         /\ UNCHANGED <<accountVars, articleVars, settingVars, subscribers, cache, clockVars>>
    ELSE IF kind = "bad" THEN Answer(req, 500)
    ELSE
      LET article == articles[pk] IN
         /\ cache' = clear_article_cache(cache, article)
         /\ articles' = [articles EXCEPT ![pk] =
                            [article EXCEPT !.title = title, !.content = content,
                                            !.publication_date = now]]
         /\ edited' = edited \cup {pk}
         /\ UNCHANGED <<deleted, pending>>
         /\ last' = Response(req, 302, NoPage, FALSE)
         /\ sent' = <<>>
         /\ enqueued' = <<>>
         /\ UNCHANGED <<accountVars, next_id, settingVars, subscribers, clockVars>>

\* ---- ArticleDeleteView.post ----
\* Mutant: the row stays in the table.
article_delete_Kept(rows, pk) == rows

\* article.delete()
article_delete(rows, pk) == [i \in DOMAIN rows \ {pk} |-> rows[i]]

ArticleDeletePost(r, pk, article_type) ==
    LET req == Request("delete", r, pk, 0, article_type, Missing, Missing)
        kind == get_article_kind(pk, article_type)
    IN
    IF AccessStatus(r) # 0 THEN Answer(req, AccessStatus(r))
    ELSE IF kind = "404" THEN Answer(req, 404)
    ELSE IF kind = "bad" THEN Answer(req, 500)
    ELSE
      LET article == articles[pk] IN
         /\ cache' = clear_article_cache(cache, article)
         /\ articles' = article_delete(articles, pk)
         /\ deleted' = deleted \cup {pk}
         /\ UNCHANGED <<edited, pending>>
         /\ last' = Response(req, 302, NoPage, FALSE)
         /\ sent' = <<>>
         /\ enqueued' = <<>>
         /\ UNCHANGED <<accountVars, next_id, settingVars, subscribers, clockVars>>

\* ---- ArticleEditView.get / ArticleDeleteView.get ----
\* Both read article.article_type of whatever get_article returned; the
\* HttpResponseBadRequest object has no such attribute, the AttributeError is
\* unhandled and the request ends as a server error.
ArticleFormGet(op, r, pk, article_type) ==
    LET req == Request(op, r, pk, 0, article_type, Missing, Missing)
        kind == get_article_kind(pk, article_type)
    IN
    IF AccessStatus(r) # 0 THEN Answer(req, AccessStatus(r))
    ELSE IF kind = "404" THEN Answer(req, 404)
    ELSE IF kind = "bad" THEN Answer(req, 500)
    ELSE /\ last' = Response(req, 200, NoPage, TRUE)
         /\ sent' = <<>>
         /\ enqueued' = <<>>
         /\ UNCHANGED <<accountVars, articleVars, settingVars, subscribers, cache, clockVars>>

ArticleEditGet(r, pk, article_type) == ArticleFormGet("edit_get", r, pk, article_type)

ArticleDeleteGet(r, pk, article_type) == ArticleFormGet("delete_get", r, pk, article_type)

\* ---- subscribe_to_category ----
subscribe_to_category(r, category_id, article_id) ==
    LET req == Request("subscribe", r, article_id, category_id, Missing, Missing, Missing) IN
    IF r \notin session THEN Answer(req, 302)
    ELSE IF category_id \notin categories THEN Answer(req, 404)
    ELSE IF article_id \notin DOMAIN articles THEN Answer(req, 404)
    ELSE IF r \notin subscribers[category_id]
    THEN /\ subscribers' = [subscribers EXCEPT ![category_id] = @ \cup {r}]
         /\ cache' = clear_article_cache(cache, articles[article_id])
         /\ sent' = <<Email("subscription", r, category_id)>>
         /\ enqueued' = <<>>
         /\ last' = Response(req, 302, NoPage, FALSE)
         /\ UNCHANGED <<accountVars, articleVars, settingVars, clockVars>>
    ELSE Answer(req, 302)

\* ---- check_post_limit ----
is_author_or_superuser(r) == r \in session /\ (is_superuser[r] \/ r \in groups["authors"])

\* Mutant: the limit of a basic user for everyone.
post_limit_Basic(r) == BASIC_POST_LIMIT

post_limit(r) == IF r \in groups["premium"] THEN PREMIUM_POST_LIMIT ELSE BASIC_POST_LIMIT

posts_last_24_hours(r, t) ==
    Cardinality({i \in DOMAIN articles :
                    /\ articles[i].author = r
                    /\ articles[i].publication_date >= t - DAY_SECONDS})

check_post_limit(r, article_type) ==
    LET req == Request("check_post_limit", r, 0, 0, article_type, Missing, Missing) IN
    IF ~is_author_or_superuser(r) THEN Answer(req, 302)
    ELSE IF article_type \notin {"news", "article"} THEN Answer(req, 400)
    ELSE IF posts_last_24_hours(r, now) < post_limit(r)
    THEN /\ last' = Redirect(req, "/create/?article_type=" \o article_type)
         /\ sent' = <<>>
         /\ enqueued' = <<>>
         /\ UNCHANGED <<accountVars, articleVars, settingVars, subscribers, cache, clockVars>>
    ELSE /\ last' = Response(req, 200, NoPage, TRUE)
         /\ sent' = <<Email("limit", r, post_limit(r))>>
         /\ enqueued' = <<>>
         /\ UNCHANGED <<accountVars, articleVars, settingVars, subscribers, cache, clockVars>>

\* ---- BaseAuthView.add_user_to_group / remove_user_from_group ----
\* Mutant: the user is not added.
add_user_to_group_Skip(g, user, group_name) == g

add_user_to_group(g, user, group_name) == [g EXCEPT ![group_name] = @ \cup {user}]

\* Mutant: the user is not removed.
remove_user_from_group_Skip(g, user, group_name) == g

remove_user_from_group(g, user, group_name) == [g EXCEPT ![group_name] = @ \ {user}]

\* Mutant: the new user is saved as created by the form, active.
save_inactive_Active(active, user) == [active EXCEPT ![user] = TRUE]

\* user = form.save(commit=False); user.is_active = False; user.save()
save_inactive(active, user) == [active EXCEPT ![user] = FALSE]

\* ---- RegisterView.post ----
RegisterPost(form_valid) ==
    LET user == Cardinality(users) + 1
        req == Request("register", Anonymous, 0, 0, ToString(form_valid), Missing, Missing)
    IN
    IF form_valid
    THEN /\ user <= MaxUsers
         /\ users' = users \cup {user}
         /\ is_active' = save_inactive(is_active, user)
         /\ groups' = add_user_to_group(groups, user, "basic")
         /\ registered' = registered \cup {user}
         /\ sent' = <<Email("welcome", user, 0)>>
         /\ enqueued' = <<>>
         /\ last' = Response([req EXCEPT !.pk = user], 302, NoPage, FALSE)
         /\ UNCHANGED <<is_superuser, session, activated, articleVars, settingVars,
                        subscribers, cache, clockVars>>
    ELSE /\ last' = Response(req, 200, NoPage, TRUE)
         /\ sent' = <<>>
         /\ enqueued' = <<>>
         /\ UNCHANGED <<accountVars, articleVars, settingVars, subscribers, cache, clockVars>>

\* ---- ActivateAccountView.get ----
ActivateAccountGet(user_id) ==
    LET req == Request("activate", Anonymous, user_id, 0, Missing, Missing, Missing) IN
    IF user_id \notin users THEN Answer(req, 404)
    ELSE /\ is_active' = [is_active EXCEPT ![user_id] = TRUE]
         /\ activated' = activated \cup {user_id}
         /\ last' = Response(req, 302, NoPage, FALSE)
         /\ sent' = <<>>
         /\ enqueued' = <<>>
         /\ UNCHANGED <<users, is_superuser, groups, session, registered, articleVars,
                        settingVars, subscribers, cache, clockVars>>

\* ---- LoginView.post ----
\* AuthenticationForm is valid when the credentials name a user, the
\* password matches and the user is active.
LoginPost(user, password_ok) ==
    LET req == Request("login", Anonymous, user, 0, Missing, Missing, Missing) IN
    IF user \in users /\ password_ok /\ is_active[user]
    THEN /\ session' = session \cup {user}
         /\ last' = Response(req, 302, NoPage, FALSE)
         /\ sent' = <<>>
         /\ enqueued' = <<>>
         /\ UNCHANGED <<users, is_active, is_superuser, groups, registered, activated,
                        articleVars, settingVars, subscribers, cache, clockVars>>
    ELSE /\ last' = Response(req, 200, NoPage, TRUE)
         /\ sent' = <<>>
         /\ enqueued' = <<>>
         /\ UNCHANGED <<accountVars, articleVars, settingVars, subscribers, cache, clockVars>>

\* ---- auth_views.LogoutView ----
Logout(r) ==
    /\ r \in session
    /\ session' = session \ {r}
    /\ last' = Response(Request("logout", r, 0, 0, Missing, Missing, Missing), 302, NoPage, FALSE)
    /\ sent' = <<>>
    /\ enqueued' = <<>>
    /\ UNCHANGED <<users, is_active, is_superuser, groups, registered, activated,
                   articleVars, settingVars, subscribers, cache, clockVars>>

\* request.POST.get(name, default)
post_get(value, default) == IF value = Missing THEN default ELSE value

\* ---- ProfileView.post ----
ProfilePost(r, form_valid, account_type_field, is_author_field) ==
    LET req == Request("profile", r, 0, 0, ToString(form_valid), account_type_field,
                       is_author_field)
        account_type == post_get(account_type_field, "False")
        is_author == post_get(is_author_field, "False")
    IN
    IF r \notin session THEN Answer(req, 302)
    ELSE IF form_valid
    THEN LET g1 == IF account_type = "True"
                   THEN add_user_to_group(groups, r, "premium")
                   ELSE remove_user_from_group(groups, r, "premium")
             g2 == IF is_author = "True"
                   THEN add_user_to_group(g1, r, "authors")
                   ELSE remove_user_from_group(g1, r, "authors")
         IN /\ groups' = g2
            /\ last' = Response(req, 302, NoPage, FALSE)
            /\ sent' = <<>>
            /\ enqueued' = <<>>
            /\ UNCHANGED <<users, is_active, is_superuser, session, registered, activated,
                           articleVars, settingVars, subscribers, cache, clockVars>>
    ELSE /\ last' = Response(req, 200, NoPage, TRUE)
         /\ sent' = <<>>
         /\ enqueued' = <<>>
         /\ UNCHANGED <<accountVars, articleVars, settingVars, subscribers, cache, clockVars>>

\* ---- a direct call of BaseArticleView.send_article_notification ----
SendArticleNotificationCall(id, use_celery) ==
    /\ id \in DOMAIN articles
    /\ LET notification == send_article_notification(articles[id], use_celery)
       IN /\ sent' = notification[1]
          /\ enqueued' = notification[2]
    /\ last' = Response(Request("send_article_notification", Anonymous, id,
                                articles[id].category, ToString(use_celery), Missing, Missing),
                        0, NoPage, FALSE)
    /\ UNCHANGED <<accountVars, articleVars, settingVars, subscribers, cache, clockVars>>

\* ---- inputs of the requests ----
ArticleForms == {[title |-> "t1", content |-> "c1"], [title |-> "t2", content |-> "c2"]}

Post(title, content, category, article_type) ==
    [title |-> title, content |-> content, category |-> category, article_type |-> article_type]

\* POST /create/: complete requests of both types, and requests that lack a
\* title, a content or a category, or name a category that does not exist.
CreatePosts ==
    {Post("t1", "c1", 1, "news"), Post("t2", "c2", 1, "article"),
     Post("", "c1", 1, "news"), Post("t1", Missing, 1, "article"),
     Post("t1", "c1", 0, "news"), Post("t2", "c2", 2, "article")}

Requesters == session \cup {Anonymous}

NoRequest == Response(Request("none", Anonymous, 0, 0, Missing, Missing, Missing), 0, NoPage, FALSE)

\* ---- the portal with a seeded user base: user 1 is a superuser, user 2 ----
\* ---- an author, user 3 a reader; all three are logged in            ----
Init ==
    /\ users = {1, 2, 3}
    /\ is_active = [u \in UserIds |-> u \in {1, 2, 3}]
    /\ is_superuser = [u \in UserIds |-> u = 1]
    /\ groups = [g \in GroupNames |->
                    IF g = "basic" THEN {2, 3} ELSE IF g = "authors" THEN {2} ELSE {}]
    /\ session = {1, 2, 3}
    /\ registered = {2, 3}
    /\ activated = {2, 3}
    /\ articles = <<>>
    /\ next_id = 1
    /\ edited = {}
    /\ deleted = {}
    /\ pending = {}
    /\ categories = {1}
    /\ subscribers = [c \in CategoryIds |-> {}]
    /\ cache = <<>>
    /\ now = 0
    /\ ticks = 0
    /\ USE_CELERY \in BOOLEAN
    /\ last = NoRequest
    /\ sent = <<>>
    /\ enqueued = <<>>

\* ---- the requests, over the given sets of inputs ----
TickNext(Steps) == \E d \in Steps : Tick(d)

DetailNext(R, Ids) == \E r \in R, id \in Ids : ArticleDetailGet(r, id)

\* At most Cap articles are ever created.
CreateNext(R, Posts, Cap) ==
    \E r \in R, p \in Posts :
        ArticleCreatePost(r, p.title, p.content, p.category, p.article_type) /\ next_id' <= Cap + 1

EditNext(R, Ids, Types, Forms) ==
    \E r \in R, pk \in Ids, ty \in Types, f \in Forms :
        ArticleEditPost(r, pk, ty, f.title, f.content)

DeleteNext(R, Ids, Types) ==
    \E r \in R, pk \in Ids, ty \in Types : ArticleDeletePost(r, pk, ty)

EditGetNext(R, Ids, Types) ==
    \E r \in R, pk \in Ids, ty \in Types : ArticleEditGet(r, pk, ty)

DeleteGetNext(R, Ids, Types) ==
    \E r \in R, pk \in Ids, ty \in Types : ArticleDeleteGet(r, pk, ty)

\* ---- the read-through cache: an author (user 2) writes, anyone reads ----
InitCache == Init /\ USE_CELERY = TRUE

NextCache ==
    \/ TickNext({1, CACHE_TIMEOUT + 1})
    \/ DetailNext({Anonymous, 2}, ArticleIds)
    \/ CreateNext({2}, {Post("t1", "c1", 1, "news")}, MaxArticles)
    \/ EditNext({2}, ArticleIds, {"1"}, ArticleForms)
    \/ DeleteNext({2}, ArticleIds, {"1"})

SpecCache == InitCache /\ [][NextCache]_vars

\* ---- detail requests of article 1 interleaved with its author's edits and delete ----
DetailBeginNext(R, Ids) == \E r \in R, id \in Ids : DetailBegin(r, id)

DetailEndNext == \E p \in pending : DetailEnd(p)

NextRace ==
    \/ TickNext({1})
    \/ DetailBeginNext({Anonymous}, {1})
    \/ DetailEndNext
    \/ CreateNext({2}, {Post("t1", "c1", 1, "news")}, MaxArticles)
    \/ EditNext({2}, {1}, {"1"}, {[title |-> "t2", content |-> "c2"]})
    \/ DeleteNext({2}, {1}, {"1"})

SpecRace == InitCache /\ [][NextRace]_vars

\* ---- the beat service alone, one week of minutes ----
NextBeat == BeatTick

SpecBeat == InitCache /\ [][NextBeat]_vars

\* ---- access control and creation: every kind of requester ----
Next ==
    \/ DetailNext({Anonymous}, ArticleIds)
    \/ CreateNext(Requesters, CreatePosts, MaxArticles)
    \/ EditNext(Requesters, ArticleIds, {"0", "1", "2"}, {[title |-> "t2", content |-> "c2"]})
    \/ DeleteNext(Requesters, ArticleIds, {"0", "1", "2"})
    \/ EditGetNext({2, 3}, ArticleIds, {"1", "2"})
    \/ DeleteGetNext({2, 3}, ArticleIds, {"1", "2"})

Spec == Init /\ [][Next]_vars

\* ---- the daily post limit: a premium superuser (1) and a basic author (2) ----
InitLimit ==
    /\ users = {1, 2, 3}
    /\ is_active = [u \in UserIds |-> u \in {1, 2, 3}]
    /\ is_superuser = [u \in UserIds |-> u = 1]
    /\ groups = [g \in GroupNames |->
                    IF g = "basic" THEN {2, 3} ELSE IF g = "authors" THEN {2} ELSE {1}]
    /\ session = {1, 2, 3}
    /\ registered = {2, 3}
    /\ activated = {2, 3}
    /\ articles = <<>>
    /\ next_id = 1
    /\ edited = {}
    /\ deleted = {}
    /\ pending = {}
    /\ categories = {1}
    /\ subscribers = [c \in CategoryIds |-> {}]
    /\ cache = <<>>
    /\ now = 0
    /\ ticks = 0
    /\ USE_CELERY = TRUE
    /\ last = NoRequest
    /\ sent = <<>>
    /\ enqueued = <<>>

NextLimit ==
    \/ TickNext({DAY_SECONDS + 1})
    \/ \E r \in {1, 2, 3}, ty \in {"news", "article", Missing} : check_post_limit(r, ty)
    \/ CreateNext({1, 2}, {Post("t1", "c1", 1, "news")}, MaxPosts)
    \/ EditNext({2}, {1}, {"1"}, {[title |-> "t2", content |-> "c2"]})

SpecLimit == InitLimit /\ [][NextLimit]_vars

\* ---- subscriptions and notifications: two categories ----
InitNotify ==
    /\ users = {1, 2, 3}
    /\ is_active = [u \in UserIds |-> u \in {1, 2, 3}]
    /\ is_superuser = [u \in UserIds |-> u = 1]
    /\ groups = [g \in GroupNames |->
                    IF g = "basic" THEN {2, 3} ELSE IF g = "authors" THEN {2} ELSE {}]
    /\ session = {1, 2, 3}
    /\ registered = {2, 3}
    /\ activated = {2, 3}
    /\ articles = <<>>
    /\ next_id = 1
    /\ edited = {}
    /\ deleted = {}
    /\ pending = {}
    /\ categories = {1, 2}
    /\ subscribers = [c \in CategoryIds |-> {}]
    /\ cache = <<>>
    /\ now = 0
    /\ ticks = 0
    /\ USE_CELERY = TRUE
    /\ last = NoRequest
    /\ sent = <<>>
    /\ enqueued = <<>>

NextNotify ==
    \/ \E r \in {Anonymous, 2, 3}, c \in {1, 2, 3}, id \in ArticleIds \cup {0} :
          subscribe_to_category(r, c, id)
    \/ CreateNext({2}, {Post("t1", "c1", 1, "news"), Post("t1", "c1", 2, "news")}, MaxArticles)
    \/ DetailNext({Anonymous}, ArticleIds)
    \/ \E id \in ArticleIds, use_celery \in BOOLEAN : SendArticleNotificationCall(id, use_celery)

SpecNotify == InitNotify /\ [][NextNotify]_vars

\* ---- the accounts: one seeded superuser, everyone else registers ----
InitAuth ==
    /\ users = {1}
    /\ is_active = [u \in UserIds |-> u = 1]
    /\ is_superuser = [u \in UserIds |-> u = 1]
    /\ groups = [g \in GroupNames |-> {}]
    /\ session = {}
    /\ registered = {}
    /\ activated = {}
    /\ articles = <<>>
    /\ next_id = 1
    /\ edited = {}
    /\ deleted = {}
    /\ pending = {}
    /\ categories = {1}
    /\ subscribers = [c \in CategoryIds |-> {}]
    /\ cache = <<>>
    /\ now = 0
    /\ ticks = 0
    /\ USE_CELERY = TRUE
    /\ last = NoRequest
    /\ sent = <<>>
    /\ enqueued = <<>>

NextAuth ==
    \/ \E form_valid \in BOOLEAN : RegisterPost(form_valid)
    \/ \E u \in UserIds : ActivateAccountGet(u)
    \/ \E u \in UserIds, password_ok \in BOOLEAN : LoginPost(u, password_ok)
    \/ \E r \in session : Logout(r)
    \/ \E r \in Requesters, form_valid \in BOOLEAN,
          account_type \in {"True", Missing}, is_author \in {"True", "False"} :
          ProfilePost(r, form_valid, account_type, is_author)

SpecAuth == InitAuth /\ [][NextAuth]_vars

\* ======================= claims =======================

\* C1: ArticleDetailView.get is a read-through cache.  For an existing article,
\* when the cache holds a live entry under the key built from (article.id,
\* article.publication_date), that entry is the response, nothing is rendered
\* and the cache is not written; otherwise the page is rendered, stored under
\* exactly that key with a timeout of 300 s, and the fresh page is the response.
C1_ReadThrough ==
    [][(last'.op = "detail" /\ last'.pk \in DOMAIN articles) =>
        LET a == articles[last'.pk]
            key == "article_" \o ToString(a.id) \o "_" \o ToString(a.publication_date)
            hit == key \in DOMAIN cache /\ cache[key].expires >= now
            page == [title |-> a.title, content |-> a.content,
                     user_is_author |-> (last'.user = a.author)]
        IN IF hit
           THEN /\ last'.page = cache[key].response
                /\ ~last'.rendered
                /\ cache' = cache
           ELSE /\ last'.rendered
                /\ last'.page = page
                /\ DOMAIN cache' = DOMAIN cache \cup {key}
                /\ cache'[key] = [response |-> page, expires |-> now + 300]
                /\ \A k \in DOMAIN cache \ {key} : cache'[k] = cache[k]
    ]_vars

\* A page was served from the cache, to another requester than the one it was
\* rendered for and later than it was stored.
C1_Witness ==
    /\ last.op = "detail"
    /\ last.status = 200
    /\ ~last.rendered
    /\ last.pk \in DOMAIN articles
    /\ last.page.user_is_author # (last.user = articles[last.pk].author)
    /\ now > 0

C3_DailyLimit ==
    \A u \in users :
        Cardinality({i \in DOMAIN articles :
                        /\ articles[i].author = u
                        /\ articles[i].publication_date >= now - 86400})
            <= (IF u \in groups["premium"] THEN 5 ELSE 3)

\* C4: ArticleCreateView, ArticleEditView and ArticleDeleteView act only for a
\* logged-in requester who is a superuser or a member of 'authors'; for any
\* other requester no article is created, changed or deleted, no cache entry is
\* cleared and no notification is dispatched.
C4_OnlyAuthors ==
    [][(/\ last'.op \in {"create", "edit", "delete"}
        /\ ~(/\ last'.user \in session
             /\ (is_superuser[last'.user] \/ last'.user \in groups["authors"])))
       => /\ articles' = articles
          /\ next_id' = next_id
          /\ cache' = cache
          /\ sent' = <<>>
          /\ enqueued' = <<>>
          /\ last'.status \in {302, 403}
    ]_vars

\* A logged-in reader asked to delete an existing, cached article and was refused.
C4_Witness ==
    /\ last.op = "delete"
    /\ last.user \in session
    /\ last.status = 403
    /\ last.pk \in DOMAIN articles
    /\ last.atype = (IF articles[last.pk].article_type THEN "1" ELSE "0")
    /\ cache # <<>>

\* C5: an article created through ArticleCreateView.post is notified according
\* to settings.USE_CELERY: when it is False no Celery task is enqueued (the
\* emails are sent inside the request); when it is True exactly one
\* send_new_article_notification task with the article id is enqueued and no
\* email is sent inside the request.
C5_CelerySwitch ==
    (last.op = "create" /\ last.status = 302 /\ last.pk # 0) =>
        IF USE_CELERY
        THEN /\ enqueued = <<[task |-> "send_new_article_notification", arg |-> last.pk]>>
             /\ sent = <<>>
        ELSE enqueued = <<>>

\* C6 as stated: ArticleCreateView.post by an author with non-empty title,
\* content and category creates exactly one article and dispatches exactly one
\* notification for it.
C6_Original ==
    [][(/\ last'.op = "create"
        /\ last'.user \in session
        /\ (is_superuser[last'.user] \/ last'.user \in groups["authors"])
        /\ last'.title \notin {"", Missing}
        /\ last'.content \notin {"", Missing}
        /\ last'.cat # 0)
       => /\ DOMAIN articles' = DOMAIN articles \cup {next_id}
          /\ Len(enqueued') = 1
    ]_vars

\* C6 amended: ArticleCreateView.post by an author with non-empty title and
\* content and the id of an existing category creates exactly one article
\* (author = the requester, publication_date = now, article_type true iff the
\* article_type parameter is 'news') and dispatches exactly one notification
\* for it; with title, content or category missing, or with a category id
\* that names no category, it creates no article and dispatches nothing.
C6_CreateOne ==
    [][(/\ last'.op = "create"
        /\ last'.user \in session
        /\ (is_superuser[last'.user] \/ last'.user \in groups["authors"]))
       => IF /\ last'.title \notin {"", Missing}
             /\ last'.content \notin {"", Missing}
             /\ last'.cat \in categories
          THEN /\ next_id \notin DOMAIN articles
               /\ DOMAIN articles' = DOMAIN articles \cup {next_id}
               /\ \A i \in DOMAIN articles : articles'[i] = articles[i]
               /\ articles'[next_id] =
                     [id |-> next_id, title |-> last'.title, content |-> last'.content,
                      author |-> last'.user, publication_date |-> now,
                      article_type |-> (last'.atype = "news"), category |-> last'.cat]
               /\ enqueued' = <<[task |-> "send_new_article_notification", arg |-> next_id]>>
               /\ sent' = <<>>
          ELSE /\ articles' = articles
               /\ enqueued' = <<>>
               /\ sent' = <<>>
    ]_vars

\* An author created an article of type 'article' (article_type false).
C6_Witness ==
    /\ last.op = "create"
    /\ last.status = 302
    /\ last.atype = "article"
    /\ last.pk \in DOMAIN articles
    /\ ~articles[last.pk].article_type
    /\ Len(enqueued) = 1

\* C7: with use_celery = False, send_article_notification sends exactly one
\* email to every subscriber of the article's category, addressed to that
\* subscriber alone, and no email to anyone else.
C7_OnePerSubscriber ==
    (last.op = "send_article_notification" /\ last.atype = "FALSE") =>
        /\ \A i \in 1..Len(sent) : Len(sent[i].to) = 1 /\ sent[i].about = last.pk
        /\ \A u \in users :
              Cardinality({i \in 1..Len(sent) : \E j \in 1..Len(sent[i].to) : sent[i].to[j] = u})
                 = (IF u \in subscribers[articles[last.pk].category] THEN 1 ELSE 0)
        /\ enqueued = <<>>

\* A synchronous notification went to two subscribers of the article's
\* category while the other category had a different set of subscribers.
C7_Witness ==
    /\ last.op = "send_article_notification"
    /\ last.atype = "FALSE"
    /\ Len(sent) = 2
    /\ \E c \in categories : subscribers[c] # subscribers[articles[last.pk].category]

\* C8: subscribe_to_category, for a logged-in user, an existing category and
\* an existing article: a user who is not yet a subscriber is added, the cache
\* entry of the named article is deleted and one confirmation email is sent to
\* that user; for a user who is already subscribed the subscribers and the
\* cache stay as they are and no email is sent.
C8_SubscribeOnce ==
    [][(/\ last'.op = "subscribe"
        /\ last'.user \in session
        /\ last'.cat \in categories
        /\ last'.pk \in DOMAIN articles)
       => LET u == last'.user
              c == last'.cat
              a == articles[last'.pk]
              key == "article_" \o ToString(a.id) \o "_" \o ToString(a.publication_date)
          IN IF u \notin subscribers[c]
             THEN /\ subscribers' = [subscribers EXCEPT ![c] = subscribers[c] \cup {u}]
                  /\ DOMAIN cache' = DOMAIN cache \ {key}
                  /\ \A k \in DOMAIN cache' : cache'[k] = cache[k]
                  /\ sent' = <<[kind |-> "subscription", to |-> <<u>>, about |-> c]>>
             ELSE /\ subscribers' = subscribers
                  /\ cache' = cache
                  /\ sent' = <<>>
    ]_vars

\* A user subscribed while the named article was cached: the entry is gone.
C8_Witness ==
    /\ last.op = "subscribe"
    /\ last.status = 302
    /\ Len(sent) = 1
    /\ last.pk \in DOMAIN articles
    /\ articles[last.pk].category # last.cat
    /\ cache = <<>>

\* C9: RegisterView.post with a valid form creates exactly one user, who is
\* inactive, is a member of 'basic' and is sent exactly one welcome email;
\* with an invalid form no user is created, no group changes and no email is
\* sent.
C9_Register ==
    [][(last'.op = "register") =>
        IF last'.atype = "TRUE"
        THEN \E u \in UserIds \ users :
                /\ users' = users \cup {u}
                /\ ~is_active'[u]
                /\ \A v \in users : is_active'[v] = is_active[v]
                /\ groups' = [groups EXCEPT !["basic"] = groups["basic"] \cup {u}]
                /\ sent' = <<[kind |-> "welcome", to |-> <<u>>, about |-> 0]>>
        ELSE /\ users' = users
             /\ is_active' = is_active
             /\ groups' = groups
             /\ sent' = <<>>
    ]_vars

\* A second user registered: inactive, in 'basic', one welcome email.
C9_Witness ==
    /\ last.op = "register"
    /\ last.status = 302
    /\ last.pk \in users
    /\ ~is_active[last.pk]
    /\ Cardinality(registered) = 2
    /\ Len(sent) = 1

\* C10: LoginView.post logs in a user created through RegisterView only after
\* ActivateAccountView.get has run for that user.
C10_LoginAfterActivation ==
    (last.op = "login" /\ last.status = 302 /\ last.pk \in registered) =>
        last.pk \in activated

\* A registered user logged in.
C10_Witness ==
    /\ last.op = "login"
    /\ last.status = 302
    /\ last.pk \in registered
    /\ last.pk \in session

\* ---- C11 ----
\* C11: a permitted edit or delete request (GET or POST) whose article_type
\* parameter is neither "0" nor "1" is answered with 400 Bad Request.
C11_BadRequest ==
    (/\ last.op \in {"edit", "delete", "edit_get", "delete_get"}
     /\ AccessStatus(last.user) = 0
     /\ last.atype \notin {"0", "1"})
        => last.status = 400

\* ---- C12 ----
\* C12: an article that ArticleDeleteView.post has deleted no longer exists,
\* and every ArticleDetailView.get that starts afterwards for its id answers
\* 404 without a page, without rendering and without touching the cache,
\* whatever the cache holds.
C12_GoneAfterDelete ==
    [][/\ deleted' \cap DOMAIN articles' = {}
       /\ (last'.op \in {"detail", "detail_begin"} /\ last'.pk \in deleted) =>
              /\ last'.op = "detail"
              /\ last'.status = 404
              /\ last'.page = NoPage
              /\ ~last'.rendered
              /\ cache' = cache
              /\ pending' = pending]_vars

\* A detail request for a deleted article was answered 404 while the cache
\* held a live page of that article.
C12_Witness ==
    /\ last.op = "detail"
    /\ last.pk \in deleted
    /\ last.status = 404
    /\ \E d \in 0..now :
          LET key == "article_" \o ToString(last.pk) \o "_" \o ToString(d)
          IN key \in DOMAIN cache /\ cache[key].expires >= now

\* ---- C16 ----
\* C16: when no detail request is in flight, the cache holds no live entry
\* for an edited or deleted article under a key (id, publication_date) other
\* than the key of the article as it is now.
C16_NoOldEntry ==
    pending = {} =>
        \A i \in edited \cup deleted, d \in 0..now :
            LET key == "article_" \o ToString(i) \o "_" \o ToString(d)
            IN (key \in DOMAIN cache /\ cache[key].expires >= now) =>
                  (i \in DOMAIN articles /\ articles[i].publication_date = d)

\* ---- C13 ----
\* C13: for a logged-in author or superuser check_post_limit answers 400
\* without an email when article_type is neither "news" nor "article";
\* redirects to /create/?article_type=<that type> without an email when the
\* user has fewer than post_limit (3, premium 5) articles of the last 24
\* hours; and otherwise sends exactly one limit email to the user and renders
\* the limit page. It never creates, changes or deletes an article.
C13_ThreeOutcomes ==
    [][(/\ last'.op = "check_post_limit"
        /\ last'.user \in session
        /\ (is_superuser[last'.user] \/ last'.user \in groups["authors"])) =>
            LET u == last'.user
                ty == last'.atype
                n == Cardinality({i \in DOMAIN articles :
                                    /\ articles[i].author = u
                                    /\ articles[i].publication_date >= now - 86400})
                lim == IF u \in groups["premium"] THEN 5 ELSE 3
            IN /\ articles' = articles
               /\ next_id' = next_id
               /\ IF ty \notin {"news", "article"}
                  THEN last'.status = 400 /\ sent' = <<>>
                  ELSE IF n < lim
                  THEN /\ last'.status = 302
                       /\ last'.location = "/create/?article_type=" \o ty
                       /\ sent' = <<>>
                  ELSE /\ last'.status = 200
                       /\ last'.rendered
                       /\ Len(sent') = 1
                       /\ sent'[1].kind = "limit"
                       /\ sent'[1].to = <<u>>]_vars

\* An author at the limit was sent the limit email.
C13_Witness ==
    /\ last.op = "check_post_limit"
    /\ last.status = 200
    /\ Len(sent) = 1
    /\ sent[1].to = <<last.user>>
    /\ Cardinality({i \in DOMAIN articles : articles[i].author = last.user}) >= 3

\* ---- C14 ----
\* C14: after ProfileView.post of a logged-in user with a valid form the
\* user is in 'premium' iff the posted account_type is "True" and in
\* 'authors' iff the posted is_author is "True" (an omitted field counts as
\* "False"), and nothing else about the groups changes; with an invalid form
\* no membership changes.
C14_ProfileGroups ==
    [][(last'.op = "profile" /\ last'.user \in session) =>
            LET u == last'.user IN
            IF last'.atype = "TRUE"
            THEN /\ (u \in groups'["premium"]) <=> (last'.title = "True")
                 /\ (u \in groups'["authors"]) <=> (last'.content = "True")
                 /\ \A g \in DOMAIN groups : groups'[g] \ {u} = groups[g] \ {u}
                 /\ groups'["basic"] = groups["basic"]
            ELSE groups' = groups]_vars

\* A valid profile form that omitted account_type and posted is_author
\* "True" left the user an author outside 'premium'.
C14_Witness ==
    /\ last.op = "profile"
    /\ last.atype = "TRUE"
    /\ last.user \in session
    /\ last.title = "<missing>"
    /\ last.content = "True"
    /\ last.user \in groups["authors"]
    /\ last.user \notin groups["premium"]

\* ---- C15 ----
\* C15: the beat service sends news.tasks.send_weekly_digest to the queue at
\* Monday 08:00 (UTC) of every week and at no other minute.
C15_MondayOnly ==
    last.op = "beat" =>
        ((\E i \in DOMAIN enqueued : enqueued[i].task = "news.tasks.send_weekly_digest")
            <=> (/\ ((now \div 86400) + 4) % 7 = 1
                 /\ (now \div 3600) % 24 = 8
                 /\ (now \div 60) % 60 = 0))

====
